---- MODULE Spec2Model ----
(***************************************************************************)
(* News portal: rating aggregation (models.py, Author.update_rating), the *)
(* cache key scheme and the pattern-based cache invalidation (models.py,  *)
(* Post.invalidate_cache; views.py, delete_cache_pattern and the views).  *)
(* Strings are sequences of one-character strings so that key building    *)
(* and regular-expression search are computed, not assumed.               *)
(***************************************************************************)
EXTENDS Integers, Sequences, FiniteSets, TLC

VARIABLES posts, comments, authors, created, cache, enumerable, ops,
          ret, kin, kout, reqs, now, expires

vars == <<posts, comments, authors, created, cache, enumerable, ops,
          ret, kin, kout, reqs, now, expires>>

(***************************************************************************)
(* Bounds                                                                  *)
(***************************************************************************)
MaxPosts == 2
MaxComments == 1
MaxRating == 1
MaxOps == 3
MaxTicks == 12

(***************************************************************************)
(* Strings                                                                 *)
(***************************************************************************)
DigitChar == <<"0", "1", "2", "3", "4", "5", "6", "7", "8", "9">>

RECURSIVE Dec(_)
\* str(int) of a non-negative integer, as an f-string renders a primary key
Dec(n) == IF n < 10 THEN <<DigitChar[n + 1]>>
          ELSE Dec(n \div 10) \o <<DigitChar[(n % 10) + 1]>>

\* str(float) of a whole number of seconds, as an f-string renders
\* datetime.timestamp()
FloatStr(t) == Dec(t) \o <<".", "0">>

S_post_detail == <<"p","o","s","t","_","d","e","t","a","i","l","_">>
S_posts_list == <<"p","o","s","t","s","_","l","i","s","t","_">>
S_post_search == <<"p","o","s","t","_","s","e","a","r","c","h","_">>
S_posts_count == <<"p","o","s","t","s","_","c","o","u","n","t","_">>
S_related_posts == <<"r","e","l","a","t","e","d","_","p","o","s","t","s","_">>
S_home_page == <<"h","o","m","e","_","p","a","g","e">>
S_cache_page == <<"v","i","e","w","s",".","d","e","c","o","r","a","t","o","r","s",".",
                  "c","a","c","h","e",".","c","a","c","h","e","_","p","a","g","e",".",
                  ".","G","E","T",".">>
S_path_posts == <<"/","p","o","s","t","s","/">>
S_path_search == <<"/","p","o","s","t","s","/","s","e","a","r","c","h","/">>

\* str.startswith
HasPrefix(k, p) == Len(k) >= Len(p) /\ SubSeq(k, 1, Len(p)) = p

\* str.replace('*', '.*')
RECURSIVE ReplaceStar(_)
ReplaceStar(p) == IF p = <<>> THEN <<>>
                  ELSE IF Head(p) = "*" THEN <<".", "*">> \o ReplaceStar(Tail(p))
                  ELSE <<Head(p)>> \o ReplaceStar(Tail(p))

\* re: literal characters, '.' (any character) and a postfix '*'
RECURSIVE MatchHere(_, _)
MatchHere(re, s) ==
    IF re = <<>> THEN TRUE
    ELSE IF Len(re) >= 2 /\ re[2] = "*"
         THEN \E k \in 0..Len(s) :
                 /\ \A i \in 1..k : re[1] = "." \/ s[i] = re[1]
                 /\ MatchHere(SubSeq(re, 3, Len(re)), SubSeq(s, k + 1, Len(s)))
    ELSE IF s /= <<>> /\ (re[1] = "." \/ re[1] = s[1])
         THEN MatchHere(Tail(re), Tail(s))
    ELSE FALSE

\* pattern_regex.search(key): a match starting at any position
RegexSearch(re, s) == \E i \in 0..Len(s) : MatchHere(re, SubSeq(s, i + 1, Len(s)))

(***************************************************************************)
(* Cache key scheme (views.py)                                             *)
(***************************************************************************)
get_post_cache_key_NoSeparator(post_id, timestamp) ==
    S_post_detail \o Dec(post_id) \o FloatStr(timestamp)

get_post_cache_key(post_id, timestamp) ==
    S_post_detail \o Dec(post_id) \o <<"_">> \o FloatStr(timestamp)

get_posts_list_cache_key(params) == S_posts_list \o params

get_search_cache_key(params) == S_post_search \o params

count_cache_key(params) == S_posts_count \o params

related_cache_key(post_id) == S_related_posts \o Dec(post_id)

home_cache_key == S_home_page

\* hexadecimal digest of a URL (hashlib.md5(...).hexdigest() yields only the
\* characters 0-9a-f; the digest here is the hexadecimal code of each
\* character)
HexOf(ch) == CASE ch = "/" -> <<"2", "f">>
               [] ch = "?" -> <<"3", "f">>
               [] ch = "=" -> <<"3", "d">>
               [] ch = "1" -> <<"3", "1">>
               [] ch = "a" -> <<"6", "1">>
               [] ch = "c" -> <<"6", "3">>
               [] ch = "e" -> <<"6", "5">>
               [] ch = "h" -> <<"6", "8">>
               [] ch = "o" -> <<"6", "f">>
               [] ch = "p" -> <<"7", "0">>
               [] ch = "r" -> <<"7", "2">>
               [] ch = "s" -> <<"7", "3">>
               [] ch = "t" -> <<"7", "4">>
               [] ch = "x" -> <<"7", "8">>
               [] ch = "y" -> <<"7", "9">>
               [] ch = "z" -> <<"7", "a">>

RECURSIVE HexDigest(_)
HexDigest(s) == IF s = <<>> THEN <<>> ELSE HexOf(Head(s)) \o HexDigest(Tail(s))

\* key under which cache_page stores the response of a GET request
page_cache_key(path, params) == S_cache_page \o HexDigest(path \o <<"?">> \o params)

(***************************************************************************)
(* Data                                                                    *)
(***************************************************************************)
Users == {"u1", "u2"}
Names == {"a", "b"}
Categories == {"c1"}
IdPool == <<1, 12, 13, 14>>
PostIds == {IdPool[i] : i \in 1..MaxPosts}
CommentIds == 1..MaxComments
Q_empty == <<>>
Q_x == <<"x", "=", "1">>
Queries == {Q_empty, Q_x}
ARTICLE == "AR"
NEWS == "NW"

Live == DOMAIN posts

\* a model instance loaded from the table
Snap(id) == [id |-> id,
             article_or_news |-> posts[id].article_or_news,
             author |-> posts[id].author,
             creation_time |-> posts[id].creation_time,
             category |-> posts[id].category,
             name |-> posts[id].name,
             rating |-> posts[id].rating]

RECURSIVE OrderByCreationDesc(_)
\* .order_by('-creation_time') over a set of live ids
OrderByCreationDesc(S) ==
    IF S = {} THEN <<>>
    ELSE LET m == CHOOSE x \in S :
                     \A y \in S : posts[y].creation_time <= posts[x].creation_time
         IN <<Snap(m)>> \o OrderByCreationDesc(S \ {m})

\* Post.objects.all() ordered by -creation_time; the query strings of
\* Queries carry no filter field, so filterset.qs keeps every row
ListResult == OrderByCreationDesc(Live)

\* related posts of PostDetail.get_context_data ([:5] keeps every row while
\* there are at most five other posts)
RelatedResult(id) ==
    LET categories == posts[id].category
    IN IF categories /= {}
       THEN {Snap(j) : j \in {x \in Live \ {id} : posts[x].category \cap categories /= {}}}
       ELSE {Snap(j) : j \in Live \ {id}}

(***************************************************************************)
(* Cache store: get / set / delete and optional key enumeration            *)
(***************************************************************************)
CacheSet(c, k, v) == [x \in (DOMAIN c) \cup {k} |-> IF x = k THEN v ELSE c[x]]

CacheDeleteKeys(c, K) == [x \in (DOMAIN c) \ K |-> c[x]]

CanEnumerate_Always == TRUE

\* hasattr(cache, '_cache') and hasattr(cache._cache, 'keys')
CanEnumerate == enumerable

PostCTimes == 1..MaxPosts

AllKeys ==
    {get_post_cache_key(i, t) : i \in PostIds, t \in PostCTimes}
    \cup {get_posts_list_cache_key(q) : q \in Queries}
    \cup {get_search_cache_key(q) : q \in Queries}
    \cup {count_cache_key(q) : q \in Queries}
    \cup {related_cache_key(i) : i \in PostIds}
    \cup {home_cache_key}
    \cup {page_cache_key(S_path_posts, q) : q \in Queries}
    \cup {page_cache_key(S_path_search, q) : q \in Queries}

ModelPatterns_NoCount(id) ==
    << S_post_detail \o Dec(id) \o <<"_", "*">>,
       S_posts_list \o <<"*">>,
       S_post_search \o <<"*">>,
       S_posts_list \o <<"*">>,
       S_related_posts \o Dec(id),
       S_home_page >>

\* the patterns Post.invalidate_cache passes to delete_pattern
ModelPatterns(id) ==
    << S_post_detail \o Dec(id) \o <<"_", "*">>,
       S_posts_list \o <<"*">>,
       S_post_search \o <<"*">>,
       S_posts_count \o <<"*">>,
       S_related_posts \o Dec(id),
       S_home_page >>

\* the patterns the create views pass to delete_cache_pattern
ViewCreatePatterns ==
    << S_posts_list \o <<".", "*">>,
       S_post_search \o <<".", "*">>,
       S_posts_count \o <<".", "*">>,
       S_related_posts \o <<".", "*">> >>

\* the patterns the update and delete views pass to delete_cache_pattern
ViewPatterns(id) ==
    << S_post_detail \o Dec(id) \o <<"_", ".", "*">> >> \o ViewCreatePatterns

AllPatterns ==
    UNION {{ModelPatterns(i)[n] : n \in 1..6} : i \in PostIds}
    \cup UNION {{ViewPatterns(i)[n] : n \in 1..5} : i \in PostIds}

\* keys for which re.compile(pattern.replace('*', '.*')).search(key) succeeds
MatchTable == [p \in AllPatterns |-> {k \in AllKeys : RegexSearch(ReplaceStar(p), k)}]

\* Post.invalidate_cache.delete_pattern
delete_pattern(c, pattern) ==
    IF CanEnumerate
    THEN CacheDeleteKeys(c, {k \in DOMAIN c : k \in MatchTable[pattern]})
    ELSE c

\* views.delete_cache_pattern
delete_cache_pattern(c, pattern) ==
    IF CanEnumerate
    THEN CacheDeleteKeys(c, {k \in DOMAIN c : k \in MatchTable[pattern]})
    ELSE c

RECURSIVE ModelDeleteAll(_, _)
ModelDeleteAll(c, ps) ==
    IF ps = <<>> THEN c ELSE ModelDeleteAll(delete_pattern(c, Head(ps)), Tail(ps))

RECURSIVE ViewDeleteAll(_, _)
ViewDeleteAll(c, ps) ==
    IF ps = <<>> THEN c ELSE ViewDeleteAll(delete_cache_pattern(c, Head(ps)), Tail(ps))

\* Post.invalidate_cache
invalidate_cache(c, id) == ModelDeleteAll(c, ModelPatterns(id))

(***************************************************************************)
(* Entry lifetimes: cache.set(key, value, timeout)                         *)
(***************************************************************************)
CACHE_TIMEOUT_POSTS == 300
CACHE_TIMEOUT_POST_DETAIL == 300
CACHE_TIMEOUT_SEARCH == 60
CACHE_TIMEOUT_HOME == 60

TimeoutTable_SearchAsPosts == [k \in AllKeys |-> CACHE_TIMEOUT_POSTS]

\* the timeout each call site passes to cache.set (cache_page for its own
\* entries) with the key it builds
TimeoutTable ==
    [k \in AllKeys |->
        IF k \in {get_posts_list_cache_key(q) : q \in Queries} THEN CACHE_TIMEOUT_POSTS
        ELSE IF k \in {count_cache_key(q) : q \in Queries} THEN CACHE_TIMEOUT_POSTS
        ELSE IF k \in {page_cache_key(S_path_posts, q) : q \in Queries} THEN CACHE_TIMEOUT_POSTS
        ELSE IF k \in {get_search_cache_key(q) : q \in Queries} THEN CACHE_TIMEOUT_SEARCH
        ELSE IF k \in {page_cache_key(S_path_search, q) : q \in Queries} THEN CACHE_TIMEOUT_SEARCH
        ELSE IF k = home_cache_key THEN CACHE_TIMEOUT_HOME
        ELSE CACHE_TIMEOUT_POST_DETAIL]

\* expiry times after a step: an entry the step has set expires its timeout
\* after now, an entry it kept expires when it did, a deleted one is gone
Expiry ==
    [k \in DOMAIN cache' |->
        IF k \in DOMAIN cache THEN expires[k] ELSE now + TimeoutTable[k]]

\* no request in flight
NoReqs == <<>>

\* the clock advances in steps of half the shortest timeout
TickSeconds == CACHE_TIMEOUT_SEARCH \div 2

\* time passes; cache.get no longer finds an entry whose timeout has elapsed
Tick ==
    /\ now < MaxTicks * TickSeconds
    /\ now' = now + TickSeconds
    /\ cache' = [k \in {x \in DOMAIN cache : expires[x] > now'} |-> cache[k]]
    /\ expires' = Expiry
    /\ UNCHANGED <<posts, comments, authors, created, enumerable, ops, ret, kin, kout,
                   reqs>>

(***************************************************************************)
(* Rating aggregator (models.py, Author.update_rating)                     *)
(***************************************************************************)
RECURSIVE SumOver(_, _)
SumOver(S, f) == IF S = {} THEN 0
                 ELSE LET x == CHOOSE y \in S : TRUE
                      IN f[x].rating + SumOver(S \ {x}, f)

\* aggregate(Sum('rating')): NULL (the empty sequence) over no rows
SumAgg(S, f) == IF S = {} THEN <<>> ELSE <<SumOver(S, f)>>

\* Sum('rating') * 3 in SQL: NULL stays NULL
Times3(x) == IF x = <<>> THEN <<>> ELSE <<x[1] * 3>>

OrZero_Missing(x) == x

\* Python "x or 0"
OrZero(x) == IF x = <<>> \/ x[1] = 0 THEN <<0>> ELSE x

\* Python "+": a None operand raises TypeError (the empty sequence)
PyAdd(x, y) == IF x = <<>> \/ y = <<>> THEN <<>> ELSE <<x[1] + y[1]>>

article_rating_NoTimes3(a) ==
    OrZero(SumAgg({i \in Live : posts[i].author = a}, posts))

article_rating(a) ==
    OrZero(Times3(SumAgg({i \in Live : posts[i].author = a}, posts)))

author_comments_rating(a) ==
    OrZero(SumAgg({c \in DOMAIN comments : comments[c].comment_user = a}, comments))

article_comments_rating(a) ==
    OrZero(SumAgg({c \in DOMAIN comments :
                      posts[comments[c].comment_post].author = a}, comments))

NewRating(a) ==
    PyAdd(PyAdd(article_rating(a), author_comments_rating(a)),
          article_comments_rating(a))

(***************************************************************************)
(* Responses                                                               *)
(***************************************************************************)
EmptyBody == [list |-> <<>>, cached_count |-> 0, total_posts_count |-> 0,
              object |-> <<>>, categories |-> {}, author_name |-> "",
              related |-> {}]

\* the outcome of the last request; again: it repeats the request before it
Resp(op, post, query, user, status, body) ==
    [op |-> op, post |-> post, query |-> query, user |-> user,
     status |-> status, body |-> body,
     again |-> (ret.op = op /\ ret.post = post /\ ret.query = query /\ ret.user = user)]

NoResp == [op |-> "init", post |-> 0, query |-> <<>>, user |-> "", status |-> 200,
           body |-> EmptyBody, again |-> FALSE]

NoQuery == <<>>
NoUser == ""


(***************************************************************************)
(* Model operations (models.py)                                            *)
(***************************************************************************)
UpdateRating_Accumulate(a) ==
    /\ a \in DOMAIN authors
    /\ LET r == NewRating(a)
       IN /\ authors' = [authors EXCEPT ![a] = @ + r[1]]
          /\ ret' = Resp("update_rating", 0, NoQuery, a, 200, EmptyBody)
    /\ UNCHANGED <<posts, comments, created, cache, enumerable, ops, kin, kout, reqs, now>>
    /\ expires' = Expiry

\* Author.update_rating
UpdateRating(a) ==
    /\ a \in DOMAIN authors
    /\ LET r == NewRating(a)
       IN IF r = <<>>
          THEN /\ authors' = authors
               /\ ret' = Resp("update_rating", 0, NoQuery, a, 500, EmptyBody)
          ELSE /\ authors' = [authors EXCEPT ![a] = r[1]]
               /\ ret' = Resp("update_rating", 0, NoQuery, a, 200, EmptyBody)
    /\ UNCHANGED <<posts, comments, created, cache, enumerable, ops, kin, kout, reqs, now>>
    /\ expires' = Expiry

PostSave_TouchesCreationTime(id, name) ==
    /\ id \in Live
    /\ ops < MaxOps
    /\ posts' = [posts EXCEPT ![id].name = name,
                              ![id].creation_time = (@ % MaxPosts) + 1]
    /\ cache' = invalidate_cache(cache, id)
    /\ ops' = ops + 1
    /\ ret' = Resp("post_save", id, NoQuery, NoUser, 200, EmptyBody)
    /\ UNCHANGED <<comments, authors, created, enumerable, kin, kout, reqs, now>>
    /\ expires' = Expiry

\* Post.save of a loaded instance: persist, then invalidate
PostSave(id, name) ==
    /\ id \in Live
    /\ ops < MaxOps
    /\ posts' = [posts EXCEPT ![id].name = name]
    /\ cache' = invalidate_cache(cache, id)
    /\ ops' = ops + 1
    /\ ret' = Resp("post_save", id, NoQuery, NoUser, 200, EmptyBody)
    /\ UNCHANGED <<comments, authors, created, enumerable, kin, kout, reqs, now>>
    /\ expires' = Expiry

PostLike_Recomputes(id) ==
    /\ id \in Live
    /\ ops < MaxOps
    /\ posts[id].rating < MaxRating
    /\ posts' = [posts EXCEPT ![id].rating = @ + 1]
    /\ authors' = [authors EXCEPT ![posts[id].author] = @ + 3]
    /\ cache' = invalidate_cache(cache, id)
    /\ ops' = ops + 1
    /\ ret' = Resp("post_like", id, NoQuery, NoUser, 200, EmptyBody)
    /\ UNCHANGED <<comments, created, enumerable, kin, kout, reqs, now>>
    /\ expires' = Expiry

\* Post.like
PostLike(id) ==
    /\ id \in Live
    /\ ops < MaxOps
    /\ posts[id].rating < MaxRating
    /\ posts' = [posts EXCEPT ![id].rating = @ + 1]
    /\ cache' = invalidate_cache(cache, id)
    /\ ops' = ops + 1
    /\ ret' = Resp("post_like", id, NoQuery, NoUser, 200, EmptyBody)
    /\ UNCHANGED <<comments, authors, created, enumerable, kin, kout, reqs, now>>
    /\ expires' = Expiry

\* Post.dislike
PostDislike(id) ==
    /\ id \in Live
    /\ ops < MaxOps
    /\ posts[id].rating > -MaxRating
    /\ posts' = [posts EXCEPT ![id].rating = @ - 1]
    /\ cache' = invalidate_cache(cache, id)
    /\ ops' = ops + 1
    /\ ret' = Resp("post_dislike", id, NoQuery, NoUser, 200, EmptyBody)
    /\ UNCHANGED <<comments, authors, created, enumerable, kin, kout, reqs, now>>
    /\ expires' = Expiry

\* rows left after Model.delete of post id (Comment.comment_post cascades)
PostsWithout(id) == [i \in Live \ {id} |-> posts[i]]
CommentsWithout(id) ==
    [c \in {x \in DOMAIN comments : comments[x].comment_post /= id} |-> comments[c]]

\* Post.delete: invalidate, then remove the row
PostDelete(id) ==
    /\ id \in Live
    /\ ops < MaxOps
    /\ cache' = invalidate_cache(cache, id)
    /\ posts' = PostsWithout(id)
    /\ comments' = CommentsWithout(id)
    /\ ops' = ops + 1
    /\ ret' = Resp("post_delete", id, NoQuery, NoUser, 200, EmptyBody)
    /\ UNCHANGED <<authors, created, enumerable, kin, kout, reqs, now>>
    /\ expires' = Expiry

\* Comment.save of a new comment (models.Model.save, not overridden)
CommentSave(c, id, u) ==
    /\ c \in CommentIds \ DOMAIN comments
    /\ \A x \in CommentIds \ DOMAIN comments : c <= x
    /\ id \in Live
    /\ ops < MaxOps
    /\ ops' = ops + 1
    /\ comments' = [x \in (DOMAIN comments) \cup {c} |->
                      IF x = c THEN [comment_post |-> id, comment_user |-> u, rating |-> 0]
                      ELSE comments[x]]
    /\ ret' = Resp("comment_save", id, NoQuery, u, 200, EmptyBody)
    /\ UNCHANGED <<posts, authors, created, cache, enumerable, kin, kout, reqs, now>>
    /\ expires' = Expiry

CommentLike_Invalidating(c) ==
    /\ c \in DOMAIN comments
    /\ comments[c].rating < MaxRating
    /\ ops < MaxOps
    /\ ops' = ops + 1
    /\ comments' = [comments EXCEPT ![c].rating = @ + 1]
    /\ cache' = invalidate_cache(cache, comments[c].comment_post)
    /\ ret' = Resp("comment_like", comments[c].comment_post, NoQuery,
                   comments[c].comment_user, 200, EmptyBody)
    /\ UNCHANGED <<posts, authors, created, enumerable, kin, kout, reqs, now>>
    /\ expires' = Expiry

\* Comment.like
CommentLike(c) ==
    /\ c \in DOMAIN comments
    /\ comments[c].rating < MaxRating
    /\ ops < MaxOps
    /\ ops' = ops + 1
    /\ comments' = [comments EXCEPT ![c].rating = @ + 1]
    /\ ret' = Resp("comment_like", comments[c].comment_post, NoQuery,
                   comments[c].comment_user, 200, EmptyBody)
    /\ UNCHANGED <<posts, authors, created, cache, enumerable, kin, kout, reqs, now>>
    /\ expires' = Expiry

\* Comment.dislike
CommentDislike(c) ==
    /\ c \in DOMAIN comments
    /\ comments[c].rating > -MaxRating
    /\ ops < MaxOps
    /\ ops' = ops + 1
    /\ comments' = [comments EXCEPT ![c].rating = @ - 1]
    /\ ret' = Resp("comment_dislike", comments[c].comment_post, NoQuery,
                   comments[c].comment_user, 200, EmptyBody)
    /\ UNCHANGED <<posts, authors, created, cache, enumerable, kin, kout, reqs, now>>
    /\ expires' = Expiry

(***************************************************************************)
(* Read views (views.py)                                                   *)
(***************************************************************************)
\* PostsList.get_queryset and get_context_data: the context of one request
\* computed against cache c, and the cache it leaves
PostsListContext(c, q) ==
    LET lk == get_posts_list_cache_key(q)
        queryset == IF lk \in DOMAIN c THEN c[lk] ELSE ListResult
        c1 == IF lk \in DOMAIN c THEN c ELSE CacheSet(c, lk, queryset)
        ck == count_cache_key(q)
        cached_count == IF ck \in DOMAIN c1 THEN c1[ck] ELSE Cardinality(Live)
        c2 == IF ck \in DOMAIN c1 THEN c1 ELSE CacheSet(c1, ck, cached_count)
    IN [body |-> [EmptyBody EXCEPT !.list = queryset,
                                   !.total_posts_count = Cardinality(Live),
                                   !.cached_count = cached_count],
        cache |-> c2]

\* PostsList.dispatch under cache_page(CACHE_TIMEOUT_POSTS)
PostsListGet(q) ==
    /\ q \in Queries
    /\ ops < MaxOps
    /\ ops' = ops + 1
    /\ LET pk == page_cache_key(S_path_posts, q)
           r == PostsListContext(cache, q)
       IN IF pk \in DOMAIN cache
          THEN /\ cache' = cache
               /\ ret' = Resp("posts_list", 0, q, NoUser, 200, cache[pk])
          ELSE /\ cache' = CacheSet(r.cache, pk, r.body)
               /\ ret' = Resp("posts_list", 0, q, NoUser, 200, r.body)
    /\ UNCHANGED <<posts, comments, authors, created, enumerable, kin, kout, reqs, now>>
    /\ expires' = Expiry

\* PostSearchView.get_queryset
PostSearchContext(c, q) ==
    LET sk == get_search_cache_key(q)
        queryset == IF sk \in DOMAIN c THEN c[sk] ELSE ListResult
        c1 == IF sk \in DOMAIN c THEN c ELSE CacheSet(c, sk, queryset)
    IN [body |-> [EmptyBody EXCEPT !.list = queryset], cache |-> c1]

\* PostSearchView.dispatch under cache_page(CACHE_TIMEOUT_SEARCH)
PostSearchGet(q) ==
    /\ q \in Queries
    /\ ops < MaxOps
    /\ ops' = ops + 1
    /\ LET pk == page_cache_key(S_path_search, q)
           r == PostSearchContext(cache, q)
       IN IF pk \in DOMAIN cache
          THEN /\ cache' = cache
               /\ ret' = Resp("post_search", 0, q, NoUser, 200, cache[pk])
          ELSE /\ cache' = CacheSet(r.cache, pk, r.body)
               /\ ret' = Resp("post_search", 0, q, NoUser, 200, r.body)
    /\ UNCHANGED <<posts, comments, authors, created, enumerable, kin, kout, reqs, now>>
    /\ expires' = Expiry

PostDetailContext_NoProbe(c, id) ==
    LET dk == get_post_cache_key(id, posts[id].creation_time)
        cached_data == [object |-> Snap(id),
                        categories |-> posts[id].category,
                        author_name |-> posts[id].author]
        c1 == CacheSet(c, dk, cached_data)
        rk == related_cache_key(id)
        related_posts == RelatedResult(id)
        c2 == CacheSet(c1, rk, related_posts)
    IN [body |-> [EmptyBody EXCEPT !.object = <<cached_data.object>>,
                                   !.categories = cached_data.categories,
                                   !.author_name = cached_data.author_name,
                                   !.related = related_posts],
        cache |-> c2]

\* PostDetail.get_object and get_context_data for a row that exists
PostDetailContext(c, id) ==
    LET dk == get_post_cache_key(id, posts[id].creation_time)
        cached_data == IF dk \in DOMAIN c THEN c[dk]
                       ELSE [object |-> Snap(id),
                             categories |-> posts[id].category,
                             author_name |-> posts[id].author]
        c1 == IF dk \in DOMAIN c THEN c ELSE CacheSet(c, dk, cached_data)
        rk == related_cache_key(cached_data.object.id)
        related_posts == IF rk \in DOMAIN c1 THEN c1[rk] ELSE RelatedResult(id)
        c2 == IF rk \in DOMAIN c1 THEN c1 ELSE CacheSet(c1, rk, related_posts)
    IN [body |-> [EmptyBody EXCEPT !.object = <<cached_data.object>>,
                                   !.categories = cached_data.categories,
                                   !.author_name = cached_data.author_name,
                                   !.related = related_posts],
        cache |-> c2]

\* PostDetail (GET) of a row that exists (Http404 otherwise, nothing changes)
PostDetailGet(id) ==
    /\ id \in Live
    /\ ops < MaxOps
    /\ ops' = ops + 1
    /\ LET r == PostDetailContext(cache, id)
       IN /\ cache' = r.cache
          /\ ret' = Resp("post_detail", id, NoQuery, NoUser, 200, r.body)
    /\ UNCHANGED <<posts, comments, authors, created, enumerable, kin, kout, reqs, now>>
    /\ expires' = Expiry

\* home_view: on a miss Post.objects.filter(is_published=True) raises
\* FieldError (Post has no such field) before anything is stored
HomeView ==
    /\ ops < MaxOps
    /\ ops' = ops + 1
    /\ IF home_cache_key \in DOMAIN cache
       THEN ret' = Resp("home", 0, NoQuery, NoUser, 200, cache[home_cache_key])
       ELSE ret' = Resp("home", 0, NoQuery, NoUser, 500, EmptyBody)
    /\ UNCHANGED <<posts, comments, authors, created, cache, enumerable, kin, kout, reqs, now>>
    /\ expires' = Expiry

(***************************************************************************)
(* Write views (views.py)                                                  *)
(***************************************************************************)
\* PostForm.save: a new instance starts from the model's defaults; the form
\* writes the name and has no field for the type, so article_or_news in the
\* submitted data is ignored
PostForm_save(instance, form) ==
    IF instance = <<>>
    THEN [article_or_news |-> "", author |-> NoUser,
          creation_time |-> 0, category |-> {}, name |-> form.name, rating |-> 0]
    ELSE [instance EXCEPT !.name = form.name]

CreateTyped_NoTypeOverride(op, type, u, form) ==
    /\ created < MaxPosts
    /\ ops < MaxOps
    /\ u \in DOMAIN authors
    /\ LET id == IdPool[created + 1]
           post == PostForm_save(<<>>, form)
           row == [post EXCEPT !.author = u,
                               !.creation_time = created + 1,
                               !.category = form.categories]
       IN /\ posts' = [i \in Live \cup {id} |-> IF i = id THEN row ELSE posts[i]]
          /\ cache' = ViewDeleteAll(invalidate_cache(cache, id), ViewCreatePatterns)
          /\ ret' = Resp(op, id, <<form.article_or_news>>, u, 302, EmptyBody)
    /\ created' = created + 1
    /\ ops' = ops + 1
    /\ UNCHANGED <<comments, authors, enumerable, kin, kout, reqs, now>>
    /\ expires' = Expiry

\* NewsCreate.form_valid / ArticleCreate.form_valid: form.save(commit=False),
\* the type and the author set by the view, post.save(), the categories,
\* then the view's patterns; ret.query records the submitted type
CreateTyped(op, type, u, form) ==
    /\ created < MaxPosts
    /\ ops < MaxOps
    /\ u \in DOMAIN authors
    /\ LET id == IdPool[created + 1]
           post == PostForm_save(<<>>, form)
           row == [post EXCEPT !.article_or_news = type,
                               !.author = u,
                               !.creation_time = created + 1,
                               !.category = form.categories]
       IN /\ posts' = [i \in Live \cup {id} |-> IF i = id THEN row ELSE posts[i]]
          /\ cache' = ViewDeleteAll(invalidate_cache(cache, id), ViewCreatePatterns)
          /\ ret' = Resp(op, id, <<form.article_or_news>>, u, 302, EmptyBody)
    /\ created' = created + 1
    /\ ops' = ops + 1
    /\ UNCHANGED <<comments, authors, enumerable, kin, kout, reqs, now>>
    /\ expires' = Expiry

NewsCreate(u, form) == CreateTyped("news_create", NEWS, u, form)

ArticleCreate(u, form) == CreateTyped("article_create", ARTICLE, u, form)

\* form_valid of an update view whose queryset is restricted to types
\* (Http404 for a row outside the queryset, nothing changes): form.save()
\* runs Post.save, then the view deletes its own patterns
UpdateTyped(op, types, id, name) ==
    /\ id \in Live
    /\ posts[id].article_or_news \in types
    /\ ops < MaxOps
    /\ posts' = [posts EXCEPT ![id] =
                    PostForm_save(@, [name |-> name])]
    /\ cache' = ViewDeleteAll(invalidate_cache(cache, id), ViewPatterns(id))
    /\ ops' = ops + 1
    /\ ret' = Resp(op, id, NoQuery, NoUser, 302, EmptyBody)
    /\ UNCHANGED <<comments, authors, created, enumerable, kin, kout, reqs, now>>
    /\ expires' = Expiry

PostUpdate(id, name) == UpdateTyped("post_update", {NEWS, ARTICLE}, id, name)

NewsUpdate(id, name) == UpdateTyped("news_update", {NEWS}, id, name)

ArticleUpdate(id, name) == UpdateTyped("article_update", {ARTICLE}, id, name)

\* delete() of a delete view whose queryset is restricted to types (Http404
\* for a row outside the queryset, nothing changes): the view deletes its
\* patterns, then self.object.delete() runs Post.delete
DeleteTyped(op, types, id) ==
    /\ id \in Live
    /\ posts[id].article_or_news \in types
    /\ ops < MaxOps
    /\ cache' = invalidate_cache(ViewDeleteAll(cache, ViewPatterns(id)), id)
    /\ posts' = PostsWithout(id)
    /\ comments' = CommentsWithout(id)
    /\ ops' = ops + 1
    /\ ret' = Resp(op, id, NoQuery, NoUser, 302, EmptyBody)
    /\ UNCHANGED <<authors, created, enumerable, kin, kout, reqs, now>>
    /\ expires' = Expiry

PostDeleteView(id) == DeleteTyped("post_delete_view", {NEWS, ARTICLE}, id)

NewsDelete(id) == DeleteTyped("news_delete", {NEWS}, id)

ArticleDelete(id) == DeleteTyped("article_delete", {ARTICLE}, id)

(***************************************************************************)
(* Requests in flight: the read views step by step (cache.get, the query,  *)
(* cache.set), as concurrent requests interleave them                      *)
(***************************************************************************)
Readers == {"r1", "r2"}

\* a request that has not started: pc is the step it takes next, obj the
\* instance it has loaded, hit whether its queryset came from the cache,
\* round the call of get_object it is in, data the cached_data it holds
NewReq(op, post, query) ==
    [op |-> op, post |-> post, query |-> query, pc |-> "start", status |-> 0,
     body |-> EmptyBody, obj |-> <<>>, hit |-> FALSE, round |-> 1, data |-> <<>>]

\* a step of request p that leaves the cache alone
ReqStep(p, r) ==
    /\ reqs' = [reqs EXCEPT ![p] = r]
    /\ UNCHANGED <<posts, comments, authors, created, cache, enumerable, ops,
                   ret, kin, kout, now>>
    /\ expires' = Expiry

\* a step of request p that is cache.set(k, v, timeout)
ReqSet(p, k, v, r) ==
    /\ reqs' = [reqs EXCEPT ![p] = r]
    /\ cache' = CacheSet(cache, k, v)
    /\ UNCHANGED <<posts, comments, authors, created, enumerable, ops,
                   ret, kin, kout, now>>
    /\ expires' = Expiry

At(p, op, pc) == p \in DOMAIN reqs /\ reqs[p].op = op /\ reqs[p].pc = pc

\* cache_page: the stored response answers the request, else the view runs
PostsList_page_get(p) ==
    /\ At(p, "posts_list", "start")
    /\ LET r == reqs[p]
           pk == page_cache_key(S_path_posts, r.query)
       IN IF pk \in DOMAIN cache
          THEN ReqStep(p, [r EXCEPT !.pc = "done", !.status = 200, !.body = cache[pk]])
          ELSE ReqStep(p, [r EXCEPT !.pc = "list_get"])

\* PostsList.get_queryset: queryset = cache.get(cache_key)
PostsList_queryset_get(p) ==
    /\ At(p, "posts_list", "list_get")
    /\ LET r == reqs[p]
           lk == get_posts_list_cache_key(r.query)
       IN IF lk \in DOMAIN cache
          THEN ReqStep(p, [r EXCEPT !.pc = "count_get", !.hit = TRUE, !.body.list = cache[lk]])
          ELSE ReqStep(p, [r EXCEPT !.pc = "list_compute"])

\* PostsList.get_queryset: the rows are fetched when cache.set pickles the
\* queryset
PostsList_queryset_compute(p) ==
    /\ At(p, "posts_list", "list_compute")
    /\ ReqStep(p, [reqs[p] EXCEPT !.pc = "list_set", !.body.list = ListResult])

\* PostsList.get_queryset: cache.set(cache_key, queryset, CACHE_TIMEOUT_POSTS)
PostsList_queryset_set(p) ==
    /\ At(p, "posts_list", "list_set")
    /\ LET r == reqs[p]
       IN ReqSet(p, get_posts_list_cache_key(r.query), r.body.list,
                 [r EXCEPT !.pc = "count_get"])

\* self.filterset.qs.count(): the length of the rows this request fetched,
\* a COUNT query when the queryset came from the cache
QsCount(r) == IF r.hit THEN Cardinality(Live) ELSE Len(r.body.list)

\* PostsList.get_context_data: total_posts_count and cache.get(count_cache_key)
PostsList_count_get(p) ==
    /\ At(p, "posts_list", "count_get")
    /\ LET r == reqs[p]
           ck == count_cache_key(r.query)
           r1 == [r EXCEPT !.body.total_posts_count = QsCount(r)]
       IN IF ck \in DOMAIN cache
          THEN ReqStep(p, [r1 EXCEPT !.pc = "page_set", !.body.cached_count = cache[ck]])
          ELSE ReqStep(p, [r1 EXCEPT !.pc = "count_compute"])

PostsList_count_compute(p) ==
    /\ At(p, "posts_list", "count_compute")
    /\ ReqStep(p, [reqs[p] EXCEPT !.pc = "count_set", !.body.cached_count = QsCount(reqs[p])])

PostsList_count_set(p) ==
    /\ At(p, "posts_list", "count_set")
    /\ LET r == reqs[p]
       IN ReqSet(p, count_cache_key(r.query), r.body.cached_count,
                 [r EXCEPT !.pc = "page_set"])

\* cache_page stores the response of the view
PostsList_page_set(p) ==
    /\ At(p, "posts_list", "page_set")
    /\ LET r == reqs[p]
       IN ReqSet(p, page_cache_key(S_path_posts, r.query), r.body,
                 [r EXCEPT !.pc = "done", !.status = 200])

\* cache_page around PostSearchView.dispatch
PostSearch_page_get(p) ==
    /\ At(p, "post_search", "start")
    /\ LET r == reqs[p]
           pk == page_cache_key(S_path_search, r.query)
       IN IF pk \in DOMAIN cache
          THEN ReqStep(p, [r EXCEPT !.pc = "done", !.status = 200, !.body = cache[pk]])
          ELSE ReqStep(p, [r EXCEPT !.pc = "search_get"])

\* PostSearchView.get_queryset: queryset = cache.get(cache_key)
PostSearch_queryset_get(p) ==
    /\ At(p, "post_search", "search_get")
    /\ LET r == reqs[p]
           sk == get_search_cache_key(r.query)
       IN IF sk \in DOMAIN cache
          THEN ReqStep(p, [r EXCEPT !.pc = "page_set", !.hit = TRUE, !.body.list = cache[sk]])
          ELSE ReqStep(p, [r EXCEPT !.pc = "search_compute"])

PostSearch_queryset_compute(p) ==
    /\ At(p, "post_search", "search_compute")
    /\ ReqStep(p, [reqs[p] EXCEPT !.pc = "search_set", !.body.list = ListResult])

PostSearch_queryset_set(p) ==
    /\ At(p, "post_search", "search_set")
    /\ LET r == reqs[p]
       IN ReqSet(p, get_search_cache_key(r.query), r.body.list,
                 [r EXCEPT !.pc = "page_set"])

PostSearch_page_set(p) ==
    /\ At(p, "post_search", "page_set")
    /\ LET r == reqs[p]
       IN ReqSet(p, page_cache_key(S_path_search, r.query), r.body,
                 [r EXCEPT !.pc = "done", !.status = 200])

\* where a request goes when get_object returns: get() calls it first, then
\* get_context_data calls it again
AfterGetObject(r) == IF r.round = 1 THEN [r EXCEPT !.round = 2, !.pc = "start"]
                     ELSE [r EXCEPT !.pc = "ctx_get"]

\* PostDetail.get_object: obj = super().get_object(queryset), Http404 for a
\* missing row
PostDetail_get_object_load(p) ==
    /\ At(p, "post_detail", "start")
    /\ LET r == reqs[p]
       IN IF r.post \in Live
          THEN ReqStep(p, [r EXCEPT !.pc = "detail_get", !.obj = <<Snap(r.post)>>])
          ELSE ReqStep(p, [r EXCEPT !.pc = "done", !.status = 404])

\* PostDetail.get_object: cached_data = cache.get(cache_key); the first call
\* returns self.object
PostDetail_get_object_get(p) ==
    /\ At(p, "post_detail", "detail_get")
    /\ LET r == reqs[p]
           dk == get_post_cache_key(r.obj[1].id, r.obj[1].creation_time)
       IN IF dk \in DOMAIN cache
          THEN ReqStep(p, AfterGetObject(
                   [r EXCEPT !.obj = <<cache[dk].object>>,
                             !.body.object = IF r.round = 1 THEN <<cache[dk].object>> ELSE @]))
          ELSE ReqStep(p, [r EXCEPT !.pc = "detail_compute"])

\* PostDetail.get_object: the cached_data dictionary (obj.category.all() is
\* a query and finds no row of a post deleted meanwhile)
PostDetail_get_object_compute(p) ==
    /\ At(p, "post_detail", "detail_compute")
    /\ LET r == reqs[p]
           id == r.obj[1].id
       IN ReqStep(p, [r EXCEPT !.pc = "detail_set",
                               !.data = <<[object |-> r.obj[1],
                                           categories |-> IF id \in Live THEN posts[id].category
                                                          ELSE {},
                                           author_name |-> r.obj[1].author]>>])

\* PostDetail.get_object: cache.set(cache_key, cached_data, CACHE_TIMEOUT_POST_DETAIL)
PostDetail_get_object_set(p) ==
    /\ At(p, "post_detail", "detail_set")
    /\ LET r == reqs[p]
           dk == get_post_cache_key(r.obj[1].id, r.obj[1].creation_time)
       IN ReqSet(p, dk, r.data[1],
                 AfterGetObject([r EXCEPT !.body.object =
                                     IF r.round = 1 THEN <<r.data[1].object>> ELSE @]))

\* PostDetail.get_context_data: cached_data = cache.get(cache_key) and the
\* context entries taken from it
PostDetail_context_get(p) ==
    /\ At(p, "post_detail", "ctx_get")
    /\ LET r == reqs[p]
           dk == get_post_cache_key(r.obj[1].id, r.obj[1].creation_time)
       IN IF dk \in DOMAIN cache
          THEN ReqStep(p, [r EXCEPT !.pc = "related_get",
                                    !.body.categories = cache[dk].categories,
                                    !.body.author_name = cache[dk].author_name])
          ELSE ReqStep(p, [r EXCEPT !.pc = "related_get"])

\* PostDetail.get_context_data: related_posts = cache.get(related_cache_key)
PostDetail_related_get(p) ==
    /\ At(p, "post_detail", "related_get")
    /\ LET r == reqs[p]
           rk == related_cache_key(r.obj[1].id)
       IN IF rk \in DOMAIN cache
          THEN ReqStep(p, [r EXCEPT !.pc = "done", !.status = 200, !.body.related = cache[rk]])
          ELSE ReqStep(p, [r EXCEPT !.pc = "related_compute"])

\* PostDetail.get_context_data: the related posts, fetched when cache.set
\* pickles the queryset
PostDetail_related_compute(p) ==
    /\ At(p, "post_detail", "related_compute")
    /\ LET r == reqs[p]
           id == r.obj[1].id
       IN ReqStep(p, [r EXCEPT !.pc = "related_set",
                               !.body.related = IF id \in Live THEN RelatedResult(id)
                                                ELSE {Snap(j) : j \in Live}])

PostDetail_related_set(p) ==
    /\ At(p, "post_detail", "related_set")
    /\ LET r == reqs[p]
       IN ReqSet(p, related_cache_key(r.obj[1].id), r.body.related,
                 [r EXCEPT !.pc = "done", !.status = 200])

\* home_view: cached_data = cache.get('home_page')
home_view_get(p) ==
    /\ At(p, "home", "start")
    /\ LET r == reqs[p]
       IN IF home_cache_key \in DOMAIN cache
          THEN ReqStep(p, [r EXCEPT !.pc = "done", !.status = 200,
                                    !.data = <<cache[home_cache_key]>>])
          ELSE ReqStep(p, [r EXCEPT !.pc = "home_compute"])

\* home_view on a miss: Post.objects.filter(is_published=True) raises
\* FieldError, cache.set is not reached
home_view_compute(p) ==
    /\ At(p, "home", "home_compute")
    /\ ReqStep(p, [reqs[p] EXCEPT !.pc = "done", !.status = 500])

(***************************************************************************)
(* Post.save and Post.delete step by step                                  *)
(***************************************************************************)
\* Post.save: super().save(*args, **kwargs)
Post_save_persist(p) ==
    /\ At(p, "post_save", "start")
    /\ reqs[p].post \in Live
    /\ posts' = [posts EXCEPT ![reqs[p].post].name = "b"]
    /\ reqs' = [reqs EXCEPT ![p].pc = "invalidate"]
    /\ UNCHANGED <<comments, authors, created, cache, enumerable, ops, ret, kin, kout, now>>
    /\ expires' = Expiry

\* Post.save: self.invalidate_cache()
Post_save_invalidate(p) ==
    /\ At(p, "post_save", "invalidate")
    /\ cache' = invalidate_cache(cache, reqs[p].post)
    /\ reqs' = [reqs EXCEPT ![p].pc = "done", ![p].status = 200]
    /\ UNCHANGED <<posts, comments, authors, created, enumerable, ops, ret, kin, kout, now>>
    /\ expires' = Expiry

\* Post.delete: self.invalidate_cache()
Post_delete_invalidate(p) ==
    /\ At(p, "post_delete", "start")
    /\ cache' = invalidate_cache(cache, reqs[p].post)
    /\ reqs' = [reqs EXCEPT ![p].pc = "remove"]
    /\ UNCHANGED <<posts, comments, authors, created, enumerable, ops, ret, kin, kout, now>>
    /\ expires' = Expiry

\* Post.delete: super().delete(*args, **kwargs)
Post_delete_remove(p) ==
    /\ At(p, "post_delete", "remove")
    /\ reqs[p].post \in Live
    /\ posts' = PostsWithout(reqs[p].post)
    /\ comments' = CommentsWithout(reqs[p].post)
    /\ reqs' = [reqs EXCEPT ![p].pc = "done", ![p].status = 200]
    /\ UNCHANGED <<authors, created, cache, enumerable, ops, ret, kin, kout, now>>
    /\ expires' = Expiry

(***************************************************************************)
(* like and dislike step by step: the caller loads the instance, then      *)
(* like()/dislike() changes the loaded rating and saves the instance       *)
(***************************************************************************)
PostVotes == {"post_like", "post_dislike"}
CommentVotes == {"comment_like", "comment_dislike"}

\* the caller's Post.objects.get(pk=...): the request's post field holds the
\* primary key, obj the instance in memory
Post_load(p) ==
    /\ p \in DOMAIN reqs
    /\ reqs[p].op \in PostVotes
    /\ reqs[p].pc = "start"
    /\ reqs[p].post \in Live
    /\ ReqStep(p, [reqs[p] EXCEPT !.pc = "vote", !.obj = posts[reqs[p].post]])

\* the caller's Comment.objects.get(pk=...): post holds the comment's key
Comment_load(p) ==
    /\ p \in DOMAIN reqs
    /\ reqs[p].op \in CommentVotes
    /\ reqs[p].pc = "start"
    /\ reqs[p].post \in DOMAIN comments
    /\ ReqStep(p, [reqs[p] EXCEPT !.pc = "vote", !.obj = comments[reqs[p].post]])

\* Model.save of a loaded Post, then invalidate_cache: every field of the
\* instance is written to the row
Post_vote_save(p, d) ==
    LET inst == [reqs[p].obj EXCEPT !.rating = @ + d]
    IN  /\ posts' = [posts EXCEPT ![reqs[p].post] = inst]
        /\ cache' = invalidate_cache(cache, reqs[p].post)
        /\ reqs' = [reqs EXCEPT ![p].pc = "done", ![p].status = 200, ![p].obj = inst]
        /\ UNCHANGED <<comments, authors, created, enumerable, ops, ret, kin, kout, now>>
        /\ expires' = Expiry

\* Post.like: self.rating += 1; self.save()
Post_like(p) == At(p, "post_like", "vote") /\ Post_vote_save(p, 1)

\* Post.dislike: self.rating -= 1; self.save()
Post_dislike(p) == At(p, "post_dislike", "vote") /\ Post_vote_save(p, -1)

\* Model.save of a loaded Comment
Comment_vote_save(p, d) ==
    LET inst == [reqs[p].obj EXCEPT !.rating = @ + d]
    IN  /\ comments' = [comments EXCEPT ![reqs[p].post] = inst]
        /\ reqs' = [reqs EXCEPT ![p].pc = "done", ![p].status = 200, ![p].obj = inst]
        /\ UNCHANGED <<posts, authors, created, cache, enumerable, ops, ret, kin, kout, now>>
        /\ expires' = Expiry

\* Comment.like: self.rating += 1; self.save()
Comment_like(p) == At(p, "comment_like", "vote") /\ Comment_vote_save(p, 1)

\* Comment.dislike: self.rating -= 1; self.save()
Comment_dislike(p) == At(p, "comment_dislike", "vote") /\ Comment_vote_save(p, -1)

(***************************************************************************)
(* Author.update_rating step by step: three aggregate queries, then save   *)
(***************************************************************************)
\* a call of update_rating on the Author of user a that has not started
NewCall(a) ==
    [op |-> "update_rating", user |-> a, pc |-> "start", article_rating |-> <<>>,
     author_comments_rating |-> <<>>, article_comments_rating |-> <<>>]

\* self.post_set.aggregate(Sum('rating') * 3) or 0
update_rating_article(p) ==
    /\ At(p, "update_rating", "start")
    /\ ReqStep(p, [reqs[p] EXCEPT !.pc = "author_comments",
                                  !.article_rating = article_rating(reqs[p].user)])

\* self.user.comment_set.aggregate(Sum('rating')) or 0
update_rating_author_comments(p) ==
    /\ At(p, "update_rating", "author_comments")
    /\ ReqStep(p, [reqs[p] EXCEPT !.pc = "article_comments",
                                  !.author_comments_rating =
                                      author_comments_rating(reqs[p].user)])

\* Comment.objects.filter(comment_post__author=self).aggregate(Sum('rating')) or 0
update_rating_article_comments(p) ==
    /\ At(p, "update_rating", "article_comments")
    /\ ReqStep(p, [reqs[p] EXCEPT !.pc = "save",
                                  !.article_comments_rating =
                                      article_comments_rating(reqs[p].user)])

update_rating_save_Adds(p) ==
    /\ At(p, "update_rating", "save")
    /\ LET r == reqs[p]
           v == PyAdd(PyAdd(r.article_rating, r.author_comments_rating),
                      r.article_comments_rating)
       IN /\ authors' = [authors EXCEPT ![r.user] = @ + v[1]]
          /\ reqs' = [reqs EXCEPT ![p] = [r EXCEPT !.pc = "done"]]
    /\ UNCHANGED <<posts, comments, created, cache, enumerable, ops, ret, kin, kout, now>>
    /\ expires' = Expiry

\* self.rating = article_rating + author_comments_rating +
\* article_comments_rating; self.save()
update_rating_save(p) ==
    /\ At(p, "update_rating", "save")
    /\ LET r == reqs[p]
           v == PyAdd(PyAdd(r.article_rating, r.author_comments_rating),
                      r.article_comments_rating)
       IN /\ authors' = [authors EXCEPT ![r.user] = v[1]]
          /\ reqs' = [reqs EXCEPT ![p] = [r EXCEPT !.pc = "done"]]
    /\ UNCHANGED <<posts, comments, created, cache, enumerable, ops, ret, kin, kout, now>>
    /\ expires' = Expiry

(***************************************************************************)
(* Cache key functions applied to drawn inputs                             *)
(***************************************************************************)
KeyTimestamps == {2, 22}
NoKeys == [done |-> FALSE, detail |-> <<>>, list |-> <<>>, search |-> <<>>,
           count |-> <<>>, related |-> <<>>, home |-> <<>>]
NoInput == [id |-> <<1, 1>>, ts |-> <<2, 2>>, q |-> <<Q_empty, Q_empty>>]

ComputeKeys ==
    /\ ~kout.done
    /\ kout' = [done |-> TRUE,
                detail |-> [n \in 1..2 |-> get_post_cache_key(kin.id[n], kin.ts[n])],
                list |-> [n \in 1..2 |-> get_posts_list_cache_key(kin.q[n])],
                search |-> [n \in 1..2 |-> get_search_cache_key(kin.q[n])],
                count |-> [n \in 1..2 |-> count_cache_key(kin.q[n])],
                related |-> [n \in 1..2 |-> related_cache_key(kin.id[n])],
                home |-> [n \in 1..2 |-> home_cache_key]]
    /\ UNCHANGED <<posts, comments, authors, created, cache, enumerable, ops,
                   ret, kin, reqs, now, expires>>

(***************************************************************************)
(* Specifications                                                          *)
(***************************************************************************)
InitRatings == {-MaxRating, 0, MaxRating}
EmptyCache == [k \in {} |-> 0]
FirstPost == [article_or_news |-> NEWS, author |-> "u1", creation_time |-> 1,
              category |-> {}, name |-> "a", rating |-> 0]

FirstComment == [comment_post |-> IdPool[1], comment_user |-> "u2", rating |-> 0]

\* the portal with one news post and one comment on it, an empty cache and
\* either kind of cache backend
Init ==
    /\ created = 1
    /\ posts = [i \in {IdPool[1]} |-> FirstPost]
    /\ comments = [c \in {1} |-> FirstComment]
    /\ authors = [u \in Users |-> 0]
    /\ cache = EmptyCache
    /\ enumerable \in BOOLEAN
    /\ ops = 0
    /\ ret = NoResp
    /\ kin = NoInput
    /\ kout = NoKeys
    /\ reqs = NoReqs
    /\ now = 0
    /\ expires = EmptyCache

\* request.user of the create views and the author of new comments
Requester == "u2"

Next ==
    \/ \E id \in PostIds : PostSave(id, "b")
    \/ \E id \in PostIds : PostLike(id)
    \/ \E id \in PostIds : PostDislike(id)
    \/ \E id \in PostIds : PostDelete(id)
    \/ \E c \in CommentIds, id \in PostIds : CommentSave(c, id, Requester)
    \/ \E c \in CommentIds : CommentLike(c)
    \/ \E c \in CommentIds : CommentDislike(c)
    \/ \E q \in Queries : PostsListGet(q)
    \/ \E q \in Queries : PostSearchGet(q)
    \/ \E id \in PostIds : PostDetailGet(id)
    \/ HomeView
    \/ \E cats \in SUBSET Categories :
          NewsCreate(Requester, [name |-> "a", article_or_news |-> ARTICLE,
                                 categories |-> cats])
    \/ \E cats \in SUBSET Categories :
          ArticleCreate(Requester, [name |-> "a", article_or_news |-> NEWS,
                                    categories |-> cats])
    \/ \E id \in PostIds : PostUpdate(id, "b")
    \/ \E id \in PostIds : NewsUpdate(id, "b")
    \/ \E id \in PostIds : ArticleUpdate(id, "b")
    \/ \E id \in PostIds : PostDeleteView(id)
    \/ \E id \in PostIds : NewsDelete(id)
    \/ \E id \in PostIds : ArticleDelete(id)

Spec == Init /\ [][Next]_vars

\* every dataset of posts and comments within the bounds, any stored rating
InitRating ==
    /\ \E S \in SUBSET PostIds :
          /\ \E au \in [S -> Users], ra \in [S -> InitRatings] :
                posts = [i \in S |-> [FirstPost EXCEPT !.author = au[i],
                                                       !.rating = ra[i],
                                                       !.creation_time =
                                                           CHOOSE j \in 1..MaxPosts : IdPool[j] = i]]
          /\ \E C \in {1..n : n \in 0..MaxComments} :
                \E cp \in [C -> S], cu \in [C -> Users], cr \in [C -> InitRatings] :
                   comments = [c \in C |-> [comment_post |-> cp[c],
                                            comment_user |-> cu[c],
                                            rating |-> cr[c]]]
    /\ created = MaxPosts
    /\ authors = [u \in Users |-> 7]
    /\ cache = EmptyCache
    /\ enumerable = TRUE
    /\ ops = 0
    /\ ret = NoResp
    /\ kin = NoInput
    /\ kout = NoKeys
    /\ reqs = NoReqs
    /\ now = 0
    /\ expires = EmptyCache

NextRating == \E a \in Users : UpdateRating(a)

SpecRating == InitRating /\ [][NextRating]_vars

InitKeys ==
    /\ posts = [i \in {} |-> FirstPost]
    /\ comments = [c \in {} |-> 0]
    /\ created = 0
    /\ authors = [u \in Users |-> 0]
    /\ cache = EmptyCache
    /\ enumerable = TRUE
    /\ ops = 0
    /\ ret = NoResp
    /\ kin \in [id : PostIds \X PostIds, ts : KeyTimestamps \X KeyTimestamps,
                q : Queries \X Queries]
    /\ kout = NoKeys
    /\ reqs = NoReqs
    /\ now = 0
    /\ expires = EmptyCache

NextKeys == ComputeKeys

SpecKeys == InitKeys /\ [][NextKeys]_vars

\* the read requests two clients can send to the portal of Init
ReadRequests ==
    {NewReq("posts_list", 0, q) : q \in Queries}
    \cup {NewReq("post_search", 0, q) : q \in Queries}
    \cup {NewReq("post_detail", IdPool[1], NoQuery)}
    \cup {NewReq("home", 0, NoQuery)}

\* the writes of the post of Init a third client can send
WriteRequests ==
    {NewReq("post_save", IdPool[1], NoQuery), NewReq("post_delete", IdPool[1], NoQuery)}

\* two read requests, alone or with a write, arrive at the portal of Init,
\* its cache empty
InitConc ==
    /\ created = 1
    /\ posts = [i \in {IdPool[1]} |-> FirstPost]
    /\ comments = [c \in {1} |-> FirstComment]
    /\ authors = [u \in Users |-> 0]
    /\ cache = EmptyCache
    /\ enumerable = TRUE
    /\ ops = 0
    /\ ret = NoResp
    /\ kin = NoInput
    /\ kout = NoKeys
    /\ \E rd \in [Readers -> ReadRequests] :
          \/ reqs = rd
          \/ \E w \in WriteRequests :
                reqs = [p \in Readers \cup {"w"} |-> IF p = "w" THEN w ELSE rd[p]]
    /\ now = 0
    /\ expires = EmptyCache

ReadStep(p) ==
    \/ PostsList_page_get(p)
    \/ PostsList_queryset_get(p)
    \/ PostsList_queryset_compute(p)
    \/ PostsList_queryset_set(p)
    \/ PostsList_count_get(p)
    \/ PostsList_count_compute(p)
    \/ PostsList_count_set(p)
    \/ PostsList_page_set(p)
    \/ PostSearch_page_get(p)
    \/ PostSearch_queryset_get(p)
    \/ PostSearch_queryset_compute(p)
    \/ PostSearch_queryset_set(p)
    \/ PostSearch_page_set(p)
    \/ PostDetail_get_object_load(p)
    \/ PostDetail_get_object_get(p)
    \/ PostDetail_get_object_compute(p)
    \/ PostDetail_get_object_set(p)
    \/ PostDetail_context_get(p)
    \/ PostDetail_related_get(p)
    \/ PostDetail_related_compute(p)
    \/ PostDetail_related_set(p)
    \/ home_view_get(p)
    \/ home_view_compute(p)

WriteStep(p) ==
    \/ Post_save_persist(p)
    \/ Post_save_invalidate(p)
    \/ Post_delete_invalidate(p)
    \/ Post_delete_remove(p)

NextConc ==
    \/ \E p \in Readers : ReadStep(p)
    \/ WriteStep("w")

SpecConc == InitConc /\ [][NextConc]_vars

\* two calls of update_rating on one Author arrive while the post and the
\* comment of Init, with any ratings, may be liked and disliked
InitRatingConc ==
    /\ created = 1
    /\ \E pr \in InitRatings, cr \in InitRatings :
          /\ posts = [i \in {IdPool[1]} |-> [FirstPost EXCEPT !.rating = pr]]
          /\ comments = [c \in {1} |-> [FirstComment EXCEPT !.rating = cr]]
    /\ authors = [u \in Users |-> 7]
    /\ cache = EmptyCache
    /\ enumerable = TRUE
    /\ ops = 0
    /\ ret = NoResp
    /\ kin = NoInput
    /\ kout = NoKeys
    /\ \E a \in Users : reqs = [p \in Readers |-> NewCall(a)]
    /\ now = 0
    /\ expires = EmptyCache

NextRatingConc ==
    \/ \E p \in Readers : update_rating_article(p)
    \/ \E p \in Readers : update_rating_author_comments(p)
    \/ \E p \in Readers : update_rating_article_comments(p)
    \/ \E p \in Readers : update_rating_save(p)
    \/ \E id \in PostIds : PostLike(id)
    \/ \E id \in PostIds : PostDislike(id)
    \/ \E c \in CommentIds : CommentLike(c)
    \/ \E c \in CommentIds : CommentDislike(c)

SpecRatingConc == InitRatingConc /\ [][NextRatingConc]_vars

\* the model operations on posts and comments, the detail view that fills
\* the cache, and update_rating run on demand
NextModel ==
    \/ \E id \in PostIds : PostSave(id, "b")
    \/ \E id \in PostIds : PostLike(id)
    \/ \E id \in PostIds : PostDislike(id)
    \/ \E id \in PostIds : PostDelete(id)
    \/ \E c \in CommentIds : CommentLike(c)
    \/ \E c \in CommentIds : CommentDislike(c)
    \/ \E id \in PostIds : PostDetailGet(id)
    \/ \E a \in Users : UpdateRating(a)

SpecModel == Init /\ [][NextModel]_vars

\* the portal of Init on a backend without key enumeration: reads, likes
\* and the passing of time
InitExpiry == Init /\ ~enumerable

NextExpiry ==
    \/ Tick
    \/ PostsListGet(Q_empty)
    \/ PostSearchGet(Q_empty)
    \/ \E id \in PostIds : PostDetailGet(id)
    \/ HomeView
    \/ \E id \in PostIds : PostLike(id)

SpecExpiry == InitExpiry /\ [][NextExpiry]_vars

\* the votes a client can send on the post and the comment of Init
VoteRequests ==
    {NewReq(op, IdPool[1], NoQuery) : op \in PostVotes}
        \cup {NewReq(op, 1, NoQuery) : op \in CommentVotes}

\* two votes, alone or with a save of the post under a new name, arrive at
\* the portal of Init, the post and the comment holding any rating
InitVotes ==
    /\ created = 1
    /\ \E pr \in InitRatings, cr \in InitRatings :
          /\ posts = [i \in {IdPool[1]} |-> [FirstPost EXCEPT !.rating = pr]]
          /\ comments = [c \in {1} |-> [FirstComment EXCEPT !.rating = cr]]
    /\ authors = [u \in Users |-> 0]
    /\ cache = EmptyCache
    /\ enumerable \in BOOLEAN
    /\ ops = 0
    /\ ret = NoResp
    /\ kin = NoInput
    /\ kout = NoKeys
    /\ \E vt \in [Readers -> VoteRequests] :
          \/ reqs = vt
          \/ reqs = [p \in Readers \cup {"w"} |->
                       IF p = "w" THEN NewReq("post_save", IdPool[1], NoQuery)
                       ELSE vt[p]]
    /\ now = 0
    /\ expires = EmptyCache

NextVotes ==
    \/ \E p \in Readers : Post_load(p)
    \/ \E p \in Readers : Comment_load(p)
    \/ \E p \in Readers : Post_like(p)
    \/ \E p \in Readers : Post_dislike(p)
    \/ \E p \in Readers : Comment_like(p)
    \/ \E p \in Readers : Comment_dislike(p)
    \/ Post_save_persist("w")
    \/ Post_save_invalidate("w")

SpecVotes == InitVotes /\ [][NextVotes]_vars

(***************************************************************************)
(* Properties of the rating aggregator                                     *)
(***************************************************************************)
PostsOf(a) == {i \in Live : posts[i].author = a}
CommentsBy(a) == {c \in DOMAIN comments : comments[c].comment_user = a}
CommentsOn(a) == {c \in DOMAIN comments : comments[c].comment_post \in PostsOf(a)}

\* sum of rating over the posts owned by a
S_p(a) ==
    LET f[n \in 0..MaxPosts] ==
            IF n = 0 THEN 0
            ELSE f[n - 1] + (IF IdPool[n] \in PostsOf(a) THEN posts[IdPool[n]].rating ELSE 0)
    IN f[MaxPosts]

\* sum of rating over the comments in C
CommentSum(C) ==
    LET f[n \in 0..MaxComments] ==
            IF n = 0 THEN 0
            ELSE f[n - 1] + (IF n \in C THEN comments[n].rating ELSE 0)
    IN f[MaxComments]

S_c(a) == CommentSum(CommentsBy(a))
S_pc(a) == CommentSum(CommentsOn(a))

\* C1: after A.update_rating() the persisted A.rating is 3*S_p + S_c + S_pc;
\* a comment by A's user on A's own post counts in both S_c and S_pc
C1_RatingFormula ==
    ret.op = "update_rating" =>
        authors[ret.user] = 3 * S_p(ret.user) + S_c(ret.user) + S_pc(ret.user)

\* update_rating has run for an author with rated posts and a rated comment
\* of their own on their own post
C1_Witness ==
    /\ ret.op = "update_rating"
    /\ S_p(ret.user) /= 0
    /\ Cardinality(PostsOf(ret.user)) = 2
    /\ \E c \in CommentsBy(ret.user) \cap CommentsOn(ret.user) : comments[c].rating /= 0

\* C2: each of the three sums counts as 0 when its collection is empty;
\* update_rating never fails and always stores an integer
C2_EmptyAsZero ==
    ret.op = "update_rating" =>
        LET a == ret.user
        IN /\ ret.status = 200
           /\ authors[a] \in Int
           /\ (PostsOf(a) = {} /\ CommentsBy(a) = {} /\ CommentsOn(a) = {}) => authors[a] = 0
           /\ PostsOf(a) = {} => authors[a] = S_c(a) + S_pc(a)
           /\ CommentsBy(a) = {} => authors[a] = 3 * S_p(a) + S_pc(a)
           /\ CommentsOn(a) = {} => authors[a] = 3 * S_p(a) + S_c(a)

\* update_rating has reset to 0 the rating 7 of an author with no post and no
\* comment (the other author still holds the initial 7)
C2_Witness ==
    /\ ret.op = "update_rating"
    /\ ret.status = 200
    /\ PostsOf(ret.user) = {} /\ CommentsBy(ret.user) = {} /\ CommentsOn(ret.user) = {}
    /\ authors[ret.user] = 0
    /\ \E b \in Users \ {ret.user} : authors[b] = 7

\* update_rating has run for an author with posts and no comment at all
C2_WitnessPartly ==
    /\ ret.op = "update_rating"
    /\ PostsOf(ret.user) /= {} /\ CommentsBy(ret.user) = {} /\ CommentsOn(ret.user) = {}
    /\ authors[ret.user] /= 0

\* C3: a second update_rating on the same author right after the first, with
\* the posts and comments unchanged, leaves Author.rating as the first left it
C3_Idempotent ==
    [][(ret.op = "update_rating" /\ ret'.op = "update_rating" /\ ret'.again)
          => authors' = authors]_vars

\* update_rating has run twice in a row on an author whose stored rating was
\* 7 and whose recomputed rating is neither 0 nor 7
C3_Witness ==
    /\ ret.op = "update_rating"
    /\ ret.again
    /\ authors[ret.user] \notin {0, 7}
    /\ \E b \in Users \ {ret.user} : authors[b] = 7 /\ PostsOf(b) /= {}

(***************************************************************************)
(* Properties of the cache keys and the invalidation                       *)
(***************************************************************************)
Contains(k, p) ==
    \E i \in 0..(Len(k) - Len(p)) : SubSeq(k, i + 1, i + Len(p)) = p

InList(l, id) == \E i \in 1..Len(l) : l[i].id = id

\* the cache entries whose value contains post id
EntriesWith(c, id) ==
    {k \in DOMAIN c :
        \/ \E q \in Queries : k = get_posts_list_cache_key(q) /\ InList(c[k], id)
        \/ \E q \in Queries : k = get_search_cache_key(q) /\ InList(c[k], id)
        \/ \E q \in Queries : k = page_cache_key(S_path_posts, q) /\ InList(c[k].list, id)
        \/ \E q \in Queries : k = page_cache_key(S_path_search, q) /\ InList(c[k].list, id)
        \/ \E t \in PostCTimes : k = get_post_cache_key(id, t)
        \/ \E j \in PostIds : k = related_cache_key(j) /\ \E x \in c[k] : x.id = id}

ModelWriteOps == {"post_save", "post_like", "post_dislike"}
CommentOps == {"comment_save", "comment_like", "comment_dislike"}
SaveOps == {"post_save", "post_update", "news_update", "article_update"}
CreateOps == {"news_create", "article_create"}
DeleteOps == {"post_delete", "post_delete_view", "news_delete", "article_delete"}
PostWriteOps == ModelWriteOps \cup SaveOps \cup CreateOps \cup DeleteOps

\* the literal part of one of the six patterns occurs in key k
MatchesSomePattern(k, id) ==
    \/ Contains(k, S_post_detail \o Dec(id) \o <<"_">>)
    \/ Contains(k, S_posts_list)
    \/ Contains(k, S_post_search)
    \/ Contains(k, S_posts_count)
    \/ Contains(k, S_related_posts \o Dec(id))
    \/ Contains(k, S_home_page)

\* C4: with key enumeration, after Post.save, like or dislike no key that
\* begins with posts_list_, post_search_ or posts_count_ is left, home_page
\* and the post's own post_detail_{id}_... and related_posts_{id} keys are
\* gone, and every key in which none of the six patterns occurs keeps its
\* value
C4_ModelWriteInvalidates ==
    [][(enumerable /\ ret'.op \in ModelWriteOps) =>
          LET id == ret'.post
          IN /\ \A k \in DOMAIN cache' :
                   /\ ~HasPrefix(k, S_posts_list)
                   /\ ~HasPrefix(k, S_post_search)
                   /\ ~HasPrefix(k, S_posts_count)
                   /\ k /= S_home_page
                   /\ ~HasPrefix(k, S_post_detail \o Dec(id) \o <<"_">>)
                   /\ k /= S_related_posts \o Dec(id)
             /\ \A k \in DOMAIN cache :
                   ~MatchesSomePattern(k, id) => (k \in DOMAIN cache' /\ cache'[k] = cache[k])
             /\ DOMAIN cache' \subseteq DOMAIN cache]_vars

\* a post was liked after a list request had stored its page, list and count
\* entries: the list and count entries are gone, the page entry is kept
C4_Witness ==
    /\ enumerable
    /\ ret.op = "post_like"
    /\ page_cache_key(S_path_posts, Q_x) \in DOMAIN cache
    /\ get_posts_list_cache_key(Q_x) \notin DOMAIN cache
    /\ count_cache_key(Q_x) \notin DOMAIN cache

\* C5: a list-view read after the deletion of a post, whatever was cached
\* before, does not return the deleted post
C5_ListAfterDelete ==
    (enumerable /\ ret.op = "posts_list") =>
        \A i \in 1..Len(ret.body.list) : ret.body.list[i].id \in Live

C7_NoEnumerationNoOp ==
    [][(~enumerable /\ ret'.op \in PostWriteOps) =>
          LET id == ret'.post
          IN /\ cache' = cache
             /\ ret'.status \in {200, 302}
             /\ invalidate_cache(cache, id) = cache
             /\ ViewDeleteAll(cache, ViewPatterns(id)) = cache
             /\ ret'.op \in DeleteOps => (id \in Live /\ id \notin DOMAIN posts')
             /\ ret'.op \in CreateOps => (id \notin Live /\ id \in DOMAIN posts')
             /\ ret'.op \in SaveOps =>
                   \E name \in Names : posts' = [posts EXCEPT ![id].name = name]
             /\ ret'.op = "post_like" => posts'[id].rating = posts[id].rating + 1
             /\ ret'.op = "post_dislike" => posts'[id].rating = posts[id].rating - 1]_vars

\* a post was deleted through the delete view without key enumeration and
\* the cache still holds entries that contain it
C7_Witness ==
    /\ ~enumerable
    /\ ret.op = "post_delete_view"
    /\ ret.status = 302
    /\ ret.post \notin Live
    /\ EntriesWith(cache, ret.post) /= {}

\* C8: for every cache content and every post the view-layer invalidation of
\* an update or delete view deletes the same keys as Post.invalidate_cache
C8_SameDeletions ==
    enumerable =>
        \A id \in Live :
            DOMAIN ViewDeleteAll(cache, ViewPatterns(id)) = DOMAIN invalidate_cache(cache, id)

Namespaces == {"detail", "list", "search", "count", "related", "home"}

\* C9: equal inputs give equal keys, different (post_id, timestamp) pairs
\* give different detail keys, different query strings give different list,
\* search and count keys, and keys of different namespaces never coincide
C9_KeysInjective ==
    kout.done =>
        /\ (kout.detail[1] = kout.detail[2]) <=>
              (kin.id[1] = kin.id[2] /\ kin.ts[1] = kin.ts[2])
        /\ (kout.list[1] = kout.list[2]) <=> (kin.q[1] = kin.q[2])
        /\ (kout.search[1] = kout.search[2]) <=> (kin.q[1] = kin.q[2])
        /\ (kout.count[1] = kout.count[2]) <=> (kin.q[1] = kin.q[2])
        /\ (kout.related[1] = kout.related[2]) <=> (kin.id[1] = kin.id[2])
        /\ \A a \in Namespaces, b \in Namespaces :
              a /= b => \A m \in 1..2, n \in 1..2 : kout[a][m] /= kout[b][n]

\* the keys of (1, 22.0) and (12, 2.0) and of two different query strings
\* have been computed
C9_Witness ==
    /\ kout.done
    /\ kin.id = <<1, 12>>
    /\ kin.ts = <<22, 2>>
    /\ kin.q[1] /= kin.q[2]

ReadOps == {"posts_list", "post_search", "post_detail"}

\* the value read for key k: the stored one on a hit, else v, which is stored
ReadThrough(k, v) ==
    /\ k \in DOMAIN cache => (v = cache[k] /\ cache'[k] = cache[k])
    /\ k \notin DOMAIN cache => (k \in DOMAIN cache' /\ cache'[k] = v)

\* C10: a read returns the stored value on a hit and stores the computed one
\* on a miss; a read repeated with no write in between returns the same
\* value and leaves the cache unchanged
C10_ReadThroughCache ==
    [][/\ (ret'.op = "posts_list") =>
             LET pk == page_cache_key(S_path_posts, ret'.query)
             IN /\ ReadThrough(pk, ret'.body)
                /\ pk \in DOMAIN cache => cache' = cache
                /\ pk \notin DOMAIN cache =>
                      /\ ReadThrough(get_posts_list_cache_key(ret'.query), ret'.body.list)
                      /\ ReadThrough(count_cache_key(ret'.query), ret'.body.cached_count)
       /\ (ret'.op = "post_search") =>
             LET pk == page_cache_key(S_path_search, ret'.query)
             IN /\ ReadThrough(pk, ret'.body)
                /\ pk \in DOMAIN cache => cache' = cache
                /\ pk \notin DOMAIN cache =>
                      ReadThrough(get_search_cache_key(ret'.query), ret'.body.list)
       /\ (ret'.op = "post_detail" /\ ret'.status = 200) =>
             LET id == ret'.post
                 data == [object |-> ret'.body.object[1],
                          categories |-> ret'.body.categories,
                          author_name |-> ret'.body.author_name]
             IN /\ ReadThrough(get_post_cache_key(id, posts[id].creation_time), data)
                /\ ReadThrough(related_cache_key(id), ret'.body.related)
       /\ (ret'.op \in ReadOps /\ ret'.again) =>
             (ret'.body = ret.body /\ ret'.status = ret.status /\ cache' = cache)]_vars

\* the detail of a post was read twice in a row
C10_Witness ==
    /\ ret.op = "post_detail"
    /\ ret.again
    /\ ret.status = 200
    /\ get_post_cache_key(ret.post, posts[ret.post].creation_time) \in DOMAIN cache
    /\ related_cache_key(ret.post) \in DOMAIN cache

\* the detail of a post was served from the cache after the post's rating
\* had changed without invalidation
C10_WitnessStale ==
    /\ ret.op = "post_detail"
    /\ ret.status = 200
    /\ ret.body.object[1].rating /= posts[ret.post].rating
(***************************************************************************)
(* Properties of requests in flight                                        *)
(***************************************************************************)
AllDone == \A p \in DOMAIN reqs : reqs[p].pc = "done"

\* what one request of r's kind returns and leaves in an empty cache when it
\* runs alone on the current dataset
Alone(r) ==
    IF r.op = "posts_list"
    THEN LET c == PostsListContext(EmptyCache, r.query)
         IN [body |-> c.body,
             cache |-> CacheSet(c.cache, page_cache_key(S_path_posts, r.query), c.body)]
    ELSE IF r.op = "post_search"
    THEN LET c == PostSearchContext(EmptyCache, r.query)
         IN [body |-> c.body,
             cache |-> CacheSet(c.cache, page_cache_key(S_path_search, r.query), c.body)]
    ELSE PostDetailContext(EmptyCache, r.post)

SameRequest(a, b) == a.op = b.op /\ a.post = b.post /\ a.query = b.query

\* C11: two concurrent reads of the same uncached key, with no write in
\* between: under every interleaving both return a value computed from the
\* current dataset, and the cache then holds that value under the keys of
\* the read and nothing else
C11_BenignRace ==
    (DOMAIN reqs = Readers /\ AllDone /\ SameRequest(reqs["r1"], reqs["r2"])) =>
        \A p \in Readers :
            /\ reqs[p].status = 200
            /\ reqs[p].op /= "home" =>
                  /\ reqs[p].body = Alone(reqs[p]).body
                  /\ cache = Alone(reqs[p]).cache
            /\ reqs[p].op = "home" =>
                  (home_cache_key \in DOMAIN cache /\ reqs[p].data = <<cache[home_cache_key]>>)

\* C11 for the list, search and detail reads only
C11_BenignRaceComputed ==
    (DOMAIN reqs = Readers /\ AllDone /\ SameRequest(reqs["r1"], reqs["r2"])
        /\ reqs["r1"].op /= "home") =>
        \A p \in Readers :
            /\ reqs[p].status = 200
            /\ reqs[p].body = Alone(reqs[p]).body
            /\ cache = Alone(reqs[p]).cache

\* C12: concurrent update_rating calls for one Author, the posts and comments
\* unchanged meanwhile: under every interleaving of their three reads and
\* their save the rating persisted once all calls have finished is
\* 3*S_p + S_c + S_pc
C12_LastWriteWins ==
    (AllDone /\ ops = 0) =>
        LET a == reqs["r1"].user
        IN authors[a] = 3 * S_p(a) + S_c(a) + S_pc(a)

\* both calls have finished on an unchanged dataset and the stored 7 of
\* their Author was replaced, the other Author still holds 7
C12_Witness ==
    /\ AllDone
    /\ ops = 0
    /\ reqs["r1"].op = "update_rating"
    /\ authors[reqs["r1"].user] \notin {0, 7}
    /\ \E b \in Users : authors[b] = 7

\* C12, second part: a post was liked between a call's reads and its save,
\* and the rating persisted once all calls have finished is the value of the
\* dataset before the like
C12_WitnessOlderDataset ==
    /\ AllDone
    /\ ops = 1
    /\ ret.op = "post_like"
    /\ LET a == reqs["r1"].user
       IN /\ posts[ret.post].author = a
          /\ authors[a] = 3 * (S_p(a) - 1) + S_c(a) + S_pc(a)

RatingOps == {"post_like", "post_dislike", "comment_like", "comment_dislike",
              "post_save", "post_delete"}

\* C13: like, dislike, save and delete of posts and comments leave every
\* Author.rating unchanged; Author.rating changes only in update_rating,
\* which changes no post, no comment and no cache entry
C13_NoImplicitRecompute ==
    [][/\ ret'.op \in RatingOps => authors' = authors
       /\ authors' /= authors => ret'.op = "update_rating"
       /\ ret'.op = "update_rating" =>
             (posts' = posts /\ comments' = comments /\ cache' = cache)]_vars

\* a post was liked and update_rating then changed its author's rating
\* while the cache held entries
C13_Witness ==
    /\ ret.op = "update_rating"
    /\ authors[ret.user] /= 0
    /\ \E id \in Live : posts[id].author = ret.user /\ posts[id].rating /= 0
    /\ DOMAIN cache /= {}

\* a post was liked and its author's rating is still the one stored before
C13_WitnessOutdated ==
    /\ ret.op = "post_like"
    /\ LET a == posts[ret.post].author
       IN authors[a] /= 3 * S_p(a) + S_c(a) + S_pc(a)

DetailKeysOf(id) ==
    {k \in DOMAIN cache : HasPrefix(k, S_post_detail \o Dec(id) \o <<"_">>)}

ClaimedTimeout(k) ==
    IF \/ HasPrefix(k, S_post_search)
       \/ k = S_home_page
       \/ k \in {page_cache_key(S_path_search, q) : q \in Queries}
    THEN 60 ELSE 300

\* C15: with invalidation a no-op an entry set at time t is served by reads
\* until t plus its timeout (300 for list, count, detail and related-posts
\* entries, 60 for search and home entries) and by no read after that; the
\* first read after expiry recomputes from the tables and stores the value
C15_ExpiryBoundsStaleness ==
    /\ [](\A k \in DOMAIN cache : now < expires[k] /\ expires[k] <= now + ClaimedTimeout(k))
    /\ [][/\ \A k \in DOMAIN cache' \ DOMAIN cache : expires'[k] = now + ClaimedTimeout(k)
          /\ \A k \in DOMAIN cache \cap DOMAIN cache' :
                expires'[k] = expires[k] /\ cache'[k] = cache[k]
          /\ \A k \in DOMAIN cache \ DOMAIN cache' : expires[k] <= now'
          /\ (ret' /= ret /\ ret'.op = "posts_list") =>
                LET pk == page_cache_key(S_path_posts, ret'.query)
                IN IF pk \in DOMAIN cache THEN ret'.body = cache[pk]
                   ELSE /\ ret'.body.list = ListResult
                        /\ cache'[pk] = ret'.body
                        /\ cache'[get_posts_list_cache_key(ret'.query)] = ListResult
                        /\ cache'[count_cache_key(ret'.query)] = Cardinality(Live)
          /\ (ret' /= ret /\ ret'.op = "post_search") =>
                LET pk == page_cache_key(S_path_search, ret'.query)
                IN IF pk \in DOMAIN cache THEN ret'.body = cache[pk]
                   ELSE /\ ret'.body.list = ListResult
                        /\ cache'[pk] = ret'.body
                        /\ cache'[get_search_cache_key(ret'.query)] = ListResult
          /\ (ret' /= ret /\ ret'.op = "post_detail") =>
                LET dk == get_post_cache_key(ret'.post, posts[ret'.post].creation_time)
                    rk == related_cache_key(ret'.post)
                IN /\ IF dk \in DOMAIN cache THEN ret'.body.object = <<cache[dk].object>>
                      ELSE /\ ret'.body.object = <<Snap(ret'.post)>>
                           /\ cache'[dk].object = Snap(ret'.post)
                   /\ IF rk \in DOMAIN cache THEN ret'.body.related = cache[rk]
                      ELSE /\ ret'.body.related = RelatedResult(ret'.post)
                           /\ cache'[rk] = RelatedResult(ret'.post)]_vars

\* a search was answered from its entry within 60 seconds of the first
\* search although a post had been liked since
C15_WitnessServed ==
    /\ ret.op = "post_search"
    /\ 0 < now /\ now < 60
    /\ Len(ret.body.list) = 1
    /\ ret.body.list[1].rating /= posts[ret.body.list[1].id].rating

\* the first search 60 seconds or more after the one that set the entry
\* recomputed the list with the like made meanwhile and stored it
C15_Witness ==
    /\ ret.op = "post_search"
    /\ now >= 60
    /\ Len(ret.body.list) = 1
    /\ ret.body.list[1].rating = 1
    /\ cache[get_search_cache_key(ret.query)] = ret.body.list
    /\ expires[get_search_cache_key(ret.query)] = now + 60
    /\ ops = 3

\* the response of a list request stored at time 0 was still served at
\* time 270 although a post had been liked since
C15_WitnessList ==
    /\ ret.op = "posts_list"
    /\ now = 270
    /\ expires[page_cache_key(S_path_posts, ret.query)] = 300
    /\ Len(ret.body.list) = 1
    /\ ret.body.list[1].rating /= posts[ret.body.list[1].id].rating

\* C16: NewsCreate stores NEWS and ArticleCreate stores ARTICLE whatever type
\* the form data carries, NewsUpdate and NewsDelete act only on NEWS posts,
\* ArticleUpdate and ArticleDelete only on ARTICLE posts, and no operation
\* changes the type of an existing post
C16_TypeFixedByWorkflow ==
    [][/\ ret'.op = "news_create" => posts'[ret'.post].article_or_news = NEWS
       /\ ret'.op = "article_create" => posts'[ret'.post].article_or_news = ARTICLE
       /\ ret'.op \in {"news_update", "news_delete"} =>
             (ret'.post \in Live /\ posts[ret'.post].article_or_news = NEWS)
       /\ ret'.op \in {"article_update", "article_delete"} =>
             (ret'.post \in Live /\ posts[ret'.post].article_or_news = ARTICLE)
       /\ \A id \in Live \cap DOMAIN posts' :
             posts'[id].article_or_news = posts[id].article_or_news]_vars

\* an article created from form data that said NEWS was then updated through
\* ArticleUpdate and is still an article
C16_Witness ==
    /\ ret.op = "article_update"
    /\ posts[ret.post].article_or_news = ARTICLE
    /\ posts[ret.post].name = "b"
    /\ \E id \in Live : posts[id].article_or_news = NEWS

\* NewsCreate has stored NEWS for form data that said ARTICLE
C16_WitnessForm ==
    /\ ret.op = "news_create"
    /\ ret.query = <<ARTICLE>>
    /\ posts[ret.post].article_or_news = NEWS

\* C17: after Post.delete of p with key enumeration no cache entry contains p
\* any more, the related_posts_{q} entries of the other posts q included
C17_DeleteLeavesNoEntry ==
    (enumerable /\ ret.op = "post_delete") => EntriesWith(cache, ret.post) = {}

\* Post.delete of p has left the related_posts_{q} entry of another post q
\* that lists p
C17_RelatedEntryLeft ==
    /\ enumerable
    /\ ret.op = "post_delete"
    /\ \E q \in Live : /\ related_cache_key(q) \in DOMAIN cache
                       /\ \E x \in cache[related_cache_key(q)] : x.id = ret.post

\* C18: Post.invalidate_cache for post i, run by Post.save, like, dislike and
\* delete, leaves the entries post_detail_{j}_... and related_posts_{j} of
\* every other post j in the cache unchanged
C18_OtherPostsKept ==
    [][(enumerable /\ ret'.op \in ModelWriteOps \cup {"post_delete"}) =>
          \A j \in PostIds \ {ret'.post} :
              \A k \in DOMAIN cache :
                  (k = related_cache_key(j) \/ HasPrefix(k, S_post_detail \o Dec(j) \o <<"_">>))
                      => (k \in DOMAIN cache' /\ cache'[k] = cache[k])]_vars

ViewPrefixPatterns ==
    {<<S_posts_list, S_posts_list \o <<".", "*">> >>,
     <<S_post_search, S_post_search \o <<".", "*">> >>,
     <<S_posts_count, S_posts_count \o <<".", "*">> >>}

\* C19: delete_cache_pattern('posts_list_.*'), ('post_search_.*') and
\* ('posts_count_.*') remove every key that begins with the prefix, the key
\* of the empty query string (the bare prefix) included
C19_ViewPatternsRemovePrefix ==
    enumerable =>
        \A pp \in ViewPrefixPatterns :
            \A k \in DOMAIN cache :
                HasPrefix(k, pp[1]) => k \notin DOMAIN delete_cache_pattern(cache, pp[2])

\* the value of key k is what a read of the current tables stores under it
Fresh(k) ==
    \/ \E q \in Queries : k = get_posts_list_cache_key(q) /\ cache[k] = ListResult
    \/ \E q \in Queries : k = get_search_cache_key(q) /\ cache[k] = ListResult
    \/ \E q \in Queries : k = count_cache_key(q) /\ cache[k] = Cardinality(Live)
    \/ \E q \in Queries : /\ k = page_cache_key(S_path_posts, q)
                          /\ cache[k] = PostsListContext(EmptyCache, q).body
    \/ \E q \in Queries : /\ k = page_cache_key(S_path_search, q)
                          /\ cache[k] = PostSearchContext(EmptyCache, q).body
    \/ \E id \in Live : /\ k = get_post_cache_key(id, posts[id].creation_time)
                        /\ cache[k] = [object |-> Snap(id),
                                       categories |-> posts[id].category,
                                       author_name |-> posts[id].author]
    \/ \E id \in Live : k = related_cache_key(id) /\ cache[k] = RelatedResult(id)

\* C20: with key enumeration, under every interleaving of a Post.save or
\* Post.delete with concurrent reads, once the write and the reads have
\* finished no cache entry holds a value computed before the write
C20_NoStaleEntryAfterWrite ==
    (enumerable /\ "w" \in DOMAIN reqs /\ AllDone) => \A k \in DOMAIN cache : Fresh(k)

\* a list read fetched its rows before Post.save persisted and stored them
\* after the invalidation: the posts_list_ entry lacks the saved change
C20_StaleListEntry ==
    /\ enumerable
    /\ "w" \in DOMAIN reqs
    /\ AllDone
    /\ reqs["w"].op = "post_save"
    /\ \E q \in Queries :
          /\ get_posts_list_cache_key(q) \in DOMAIN cache
          /\ cache[get_posts_list_cache_key(q)] /= ListResult

\* a detail read loaded the post before Post.delete removed it and stored
\* its entry after the invalidation: the entry holds the deleted post
C20_DeletedPostCached ==
    /\ enumerable
    /\ "w" \in DOMAIN reqs
    /\ AllDone
    /\ reqs["w"].op = "post_delete"
    /\ \E k \in DOMAIN cache : HasPrefix(k, S_post_detail \o Dec(reqs["w"].post) \o <<"_">>)

\* request p completes in this step
Completes(p) == reqs[p].pc /= "done" /\ reqs'[p].pc = "done"

\* the signed unit of a vote
VoteDelta(op) == IF op \in {"post_like", "comment_like"} THEN 1 ELSE -1

\* the step changes the rating of post id by d and nothing else in the tables
OnlyPostRating(id, d) ==
    /\ posts' = [posts EXCEPT ![id].rating = @ + d]
    /\ comments' = comments
    /\ authors' = authors

\* the step changes the rating of comment c by d and nothing else in the tables
OnlyCommentRating(c, d) ==
    /\ comments' = [comments EXCEPT ![c].rating = @ + d]
    /\ posts' = posts
    /\ authors' = authors

\* C21: each completed like raises and each completed dislike lowers the
\* persisted rating of its post or comment by exactly 1 and changes no other
\* field and no other object, under any interleaving of requests that load,
\* modify and save (so n likes and m dislikes add n - m to the rating)
C21_VotesCount ==
    [][\A p \in DOMAIN reqs :
          /\ (reqs[p].op \in PostVotes /\ Completes(p))
                => OnlyPostRating(reqs[p].post, VoteDelta(reqs[p].op))
          /\ (reqs[p].op \in CommentVotes /\ Completes(p))
                => OnlyCommentRating(reqs[p].post, VoteDelta(reqs[p].op))]_vars

\* two likes of the post have completed, both computed the same new rating
\* from the same loaded value, and the row holds it: one like is lost
C21_LostLike ==
    /\ AllDone
    /\ DOMAIN reqs = Readers
    /\ \A p \in Readers : reqs[p].op = "post_like"
    /\ reqs["r1"].obj.rating = reqs["r2"].obj.rating
    /\ posts[IdPool[1]].rating = reqs["r1"].obj.rating

\* a like and a dislike of the comment have completed and the rating is not
\* back at the value both loaded
C21_LostCommentVote ==
    /\ AllDone
    /\ DOMAIN reqs = Readers
    /\ reqs["r1"].op = "comment_like"
    /\ reqs["r2"].op = "comment_dislike"
    /\ reqs["r1"].obj.rating = reqs["r2"].obj.rating + 2
    /\ comments[1].rating /= reqs["r1"].obj.rating - 1

\* a like loaded the post before a save under a new name and completed after
\* it: the like wrote the old name back
C21_LikeRevertsName ==
    /\ AllDone
    /\ "w" \in DOMAIN reqs
    /\ posts[IdPool[1]].name = FirstPost.name

\* votes that do not overlap count: two completed likes of the post, the
\* second loaded after the first saved
C21_SequentialLikes ==
    /\ AllDone
    /\ DOMAIN reqs = Readers
    /\ \A p \in Readers : reqs[p].op = "post_like"
    /\ reqs["r2"].obj.rating = reqs["r1"].obj.rating + 1
    /\ posts[IdPool[1]].rating = reqs["r2"].obj.rating
====
